---- MODULE Spec2Model ----
\* gh-rr: request pull-request reviews from configured groups of reviewers.
\* Model of src/main.go (the revision with global groups, lines 376-598):
\* the YAML decoding hooks, determineReviewers, buildAddReviewersArgs and run.
\*
\* Strings the code inspects (repository names, group names, executor error
\* output) are sequences of one-character strings; strings it only passes
\* along (reviewers, targets, directories) are plain strings.
EXTENDS Integers, Sequences, FiniteSets, TLC

VARIABLES
    file,       \* what <config-dir>/gh-rr.yml holds on disk
    homeOk,     \* whether os.UserHomeDir() succeeds in this environment
    osArgs,     \* the command line run is called with
    pc,         \* position of the current run inside run()
    flags,      \* the parsed command line of the current run
    repo,       \* run's local repo
    confPath,   \* run's local confPath
    Path,       \* Config.Path as loadConfigFile returns it
    repos,      \* repositories.UnmarshalYAML's local repos (decoded entries)
    pending,    \* keys of repos the range loop has not visited yet
    conf,       \* conf.Repositories
    loadErr,    \* error returned by parseConfig
    reviewers,  \* result of determineReviewers
    err,        \* error of determineReviewers
    stdout,     \* lines written to the run's stdout writer
    stderr,     \* lines written to the run's stderr writer
    osStderr,   \* lines written to the process' os.Stderr
    ghCalls,    \* argument vectors the executor was invoked with
    ghOut,      \* run's locals url and errMsg, what the executor returned
    exit,       \* exit code returned by run, -1 while running
    last,       \* the step at which run returned, "none" while running
    runs,       \* number of runs started so far
    prev        \* summary of the previous completed run

vars == <<file, homeOk, osArgs, pc, flags, repo, confPath, Path, repos, pending, conf, loadErr,
          reviewers, err, stdout, stderr, osStderr, ghCalls, ghOut, exit, last, runs, prev>>

----------------------------------------------------------------------------
\* Bounds of the model

\* runs of the program against the same file on disk
MaxRuns == 2
\* longest reviewer sequence drawn for the pure functions
MaxReviewers == 2

----------------------------------------------------------------------------
\* Strings

SLASH == "/"

Upper == <<"A", "B", "C", "D", "H">>
Lower == <<"a", "b", "c", "d", "h">>

\* unicode.ToLower on one character
ToLowerChar(c) ==
    IF \E i \in 1..Len(Upper) : Upper[i] = c
    THEN Lower[CHOOSE i \in 1..Len(Upper) : Upper[i] = c]
    ELSE c

\* strings.ToLower
ToLower(s) == [i \in 1..Len(s) |-> ToLowerChar(s[i])]

\* strings.HasPrefix
HasPrefix(s, p) == Len(s) >= Len(p) /\ SubSeq(s, 1, Len(p)) = p

\* strings.Cut(s, sep): only its found result is used
CutFound(s, sep) == \E i \in 1..Len(s) : s[i] = sep

Http == <<"h", "t", "t", "p">>

Default == <<"d", "e", "f", "a", "u", "l", "t">>
Star == <<"*">>

----------------------------------------------------------------------------
\* Go maps as functions

EmptyMap == [k \in {} |-> <<>>]

\* m[key] = v
MapSet(m, key, v) == [k \in DOMAIN m \cup {key} |-> IF k = key THEN v ELSE m[k]]

----------------------------------------------------------------------------
\* YAML documents, as the node tree the decoder walks.
\* A sequence item is a string scalar or a nested collection; a group's value
\* and a repository's value are null, a scalar, a sequence or (repository
\* only) a mapping.

StrItems(L) == [i \in 1..Len(L) |-> [t |-> "str", v |-> L[i]]]
NestedItem == [t |-> "seq", v |-> ""]

GSeq(L) == [t |-> "seq", items |-> StrItems(L)]
GNull == [t |-> "null", items |-> <<>>]
GScalar == [t |-> "str", items |-> <<>>]

Pair(k, n) == [k |-> k, n |-> n]

RSeq(L) == [t |-> "seq", items |-> StrItems(L), pairs |-> <<>>]
RBadSeq == [t |-> "seq", items |-> <<[t |-> "str", v |-> "alice"], NestedItem>>, pairs |-> <<>>]
RMap(ps) == [t |-> "map", items |-> <<>>, pairs |-> ps]
RNull == [t |-> "null", items |-> <<>>, pairs |-> <<>>]
RScalar == [t |-> "str", items |-> <<>>, pairs |-> <<>>]

\* the keys of a mapping node are unique (yaml.v3 rejects a repeated key)
UniqueKeys(ps) == \A i, j \in 1..Len(ps) : ps[i].k = ps[j].k => i = j

Keys(ps) == {ps[i].k : i \in 1..Len(ps)}

ValueOf(ps, key) == ps[CHOOSE i \in 1..Len(ps) : ps[i].k = key].n

\* unmarshal(&group) with group []string: a sequence of scalars decodes,
\* anything else is a type error
UnmarshalStrings(n) ==
    IF n.t = "seq" /\ \A i \in 1..Len(n.items) : n.items[i].t = "str"
    THEN [ok |-> TRUE, val |-> [i \in 1..Len(n.items) |-> n.items[i].v]]
    ELSE [ok |-> FALSE, val |-> <<>>]

\* one value of a map[string][]string: null decodes to a nil slice
UnmarshalGroupValue(n) ==
    IF n.t = "null" THEN [ok |-> TRUE, val |-> <<>>] ELSE UnmarshalStrings(n)

\* unmarshal(&rg.Groups) with Groups map[string][]string
UnmarshalGroups(n) ==
    IF /\ n.t = "map"
       /\ UniqueKeys(n.pairs)
       /\ \A i \in 1..Len(n.pairs) : UnmarshalGroupValue(n.pairs[i].n).ok
    THEN [ok |-> TRUE,
          val |-> [g \in Keys(n.pairs) |-> UnmarshalGroupValue(ValueOf(n.pairs, g)).val]]
    ELSE [ok |-> FALSE, val |-> EmptyMap]

\* repositoryGroups.UnmarshalYAML storing a list under "Default" instead of
\* under "default"
RepositoryGroupsUnmarshalYAMLNoDefault(n) ==
    LET group == UnmarshalStrings(n)
        groups == UnmarshalGroups(n)
    IN  IF group.ok
        THEN [ok |-> TRUE, Groups |-> [g \in {<<"D", "e", "f", "a", "u", "l", "t">>} |-> group.val]]
        ELSE IF ~groups.ok
             THEN [ok |-> FALSE, Groups |-> EmptyMap]
             ELSE [ok |-> TRUE, Groups |-> groups.val]

\* (rg *repositoryGroups) UnmarshalYAML
RepositoryGroupsUnmarshalYAML(n) ==
    LET group == UnmarshalStrings(n)
        groups == UnmarshalGroups(n)
    IN  IF group.ok
        THEN [ok |-> TRUE, Groups |-> [g \in {Default} |-> group.val]]
        ELSE IF ~groups.ok
             THEN [ok |-> FALSE, Groups |-> EmptyMap]
             ELSE [ok |-> TRUE, Groups |-> groups.val]

\* one value of a map[string]repositoryGroups: a null value never reaches
\* UnmarshalYAML and is stored as the zero repositoryGroups (Groups nil)
UnmarshalRepositoryValue(n) ==
    IF n.t = "null" THEN [ok |-> TRUE, Groups |-> EmptyMap]
    ELSE RepositoryGroupsUnmarshalYAML(n)

\* unmarshal(&repos) with repos map[string]repositoryGroups, on the node of
\* the document's repositories key
UnmarshalRepos(top) ==
    IF /\ top.t = "map"
       /\ UniqueKeys(top.entries)
       /\ \A i \in 1..Len(top.entries) : UnmarshalRepositoryValue(top.entries[i].n).ok
    THEN [ok |-> TRUE,
          val |-> [s \in Keys(top.entries) |->
                      UnmarshalRepositoryValue(ValueOf(top.entries, s)).Groups]]
    ELSE [ok |-> FALSE, val |-> EmptyMap]

----------------------------------------------------------------------------
\* The pure functions

ErrNil == "nil"
ErrRepositoryNotConfigured == "errRepositoryNotConfigured"
ErrGroupNotConfigured == "errGroupNotConfigured"

\* determineReviewers with the two errors exchanged
determineReviewersSwapped(c, repository, group) ==
    IF repository \notin DOMAIN c
    THEN [reviewers |-> <<>>, err |-> ErrGroupNotConfigured]
    ELSE IF group \notin DOMAIN c[repository]
         THEN [reviewers |-> <<>>, err |-> ErrRepositoryNotConfigured]
         ELSE [reviewers |-> c[repository][group], err |-> ErrNil]

\* determineReviewers taking a group without reviewers for a missing group
determineReviewersEmptyIsMissing(c, repository, group) ==
    IF repository \notin DOMAIN c
    THEN [reviewers |-> <<>>, err |-> ErrRepositoryNotConfigured]
    ELSE IF group \notin DOMAIN c[repository] \/ c[repository][group] = <<>>
         THEN [reviewers |-> <<>>, err |-> ErrGroupNotConfigured]
         ELSE [reviewers |-> c[repository][group], err |-> ErrNil]

\* determineReviewers returning no error for a missing group
determineReviewersNoGroupError(c, repository, group) ==
    IF repository \notin DOMAIN c
    THEN [reviewers |-> <<>>, err |-> ErrRepositoryNotConfigured]
    ELSE IF group \notin DOMAIN c[repository]
         THEN [reviewers |-> <<>>, err |-> ErrNil]
         ELSE [reviewers |-> c[repository][group], err |-> ErrNil]

\* determineReviewers finding the group whatever its letter case
determineReviewersFoldsGroup(c, repository, group) ==
    IF repository \notin DOMAIN c
    THEN [reviewers |-> <<>>, err |-> ErrRepositoryNotConfigured]
    ELSE IF \A g \in DOMAIN c[repository] : ToLower(g) # ToLower(group)
         THEN [reviewers |-> <<>>, err |-> ErrGroupNotConfigured]
         ELSE [reviewers |->
                  c[repository][CHOOSE g \in DOMAIN c[repository] :
                                    ToLower(g) = ToLower(group)],
               err |-> ErrNil]

\* determineReviewers(conf, repository, group)
determineReviewers(c, repository, group) ==
    IF repository \notin DOMAIN c
    THEN [reviewers |-> <<>>, err |-> ErrRepositoryNotConfigured]
    ELSE IF group \notin DOMAIN c[repository]
         THEN [reviewers |-> <<>>, err |-> ErrGroupNotConfigured]
         ELSE [reviewers |-> c[repository][group], err |-> ErrNil]

\* the range loop of buildAddReviewersArgs: args = append(args, "--add-reviewer", reviewer)
RECURSIVE AppendReviewers(_, _)
AppendReviewers(args, rs) ==
    IF rs = <<>> THEN args
    ELSE AppendReviewers(args \o <<"--add-reviewer", Head(rs)>>, Tail(rs))

\* buildAddReviewersArgs appending each reviewer once only
RECURSIVE AppendReviewersOnce(_, _)
AppendReviewersOnce(args, rs) ==
    IF rs = <<>> THEN args
    ELSE IF \E i \in 6..Len(args) : args[i] = Head(rs)
         THEN AppendReviewersOnce(args, Tail(rs))
         ELSE AppendReviewersOnce(args \o <<"--add-reviewer", Head(rs)>>, Tail(rs))

buildAddReviewersArgsOnce(repository, target, rs) ==
    AppendReviewersOnce(<<"pr", "edit", target, "--repo", repository>>, rs)

\* buildAddReviewersArgs passing the repository on in lower case
buildAddReviewersArgsLower(repository, target, rs) ==
    AppendReviewers(<<"pr", "edit", target, "--repo", ToLower(repository)>>, rs)

\* buildAddReviewersArgs(repository, target, reviewers)
buildAddReviewersArgs(repository, target, rs) ==
    AppendReviewers(<<"pr", "edit", target, "--repo", repository>>, rs)

----------------------------------------------------------------------------
\* The inputs of the model

AB == <<"a", SLASH, "b">>
AbMixed == <<"A", SLASH, "b">>
ABUpper == <<"A", SLASH, "B">>
CD == <<"c", SLASH, "d">>
NoOwner == <<"a", "b">>
HttpOwner == <<"h", "t", "t", "p", SLASH, "a">>
Url == <<"h", "t", "t", "p", "s", ":", SLASH, SLASH, "a", SLASH, "b">>
Nested == <<"a", SLASH, "b", SLASH, "c">>

Infra == <<"i", "n", "f", "r", "a">>
Security == <<"s", "e", "c">>
DefaultUpper == <<"D", "e", "f", "a", "u", "l", "t">>

\* values of --repo; the empty string is the flag's default (not given)
RepoArgs == {<<>>, AB, ABUpper, CD, NoOwner, HttpOwner, Url, Nested}

\* values of --from
FromArgs == {Infra, Security, DefaultUpper}

\* positional arguments
Positionals ==
    {<<>>, <<"123">>, <<"my-branch", "456">>, <<"https://github.com/a/b/pull/1">>}

\* results of repository.Current()
CurrentRepos ==
    {[ok |-> FALSE, Owner |-> <<>>, Name |-> <<>>],
     [ok |-> TRUE, Owner |-> <<"A">>, Name |-> <<"b">>]}

\* results of the executor: (stdout, stderr)
GhResults ==
    {[url |-> "https://github.com/a/b/pull/1", errMsg |-> <<>>],
     [url |-> "", errMsg |-> <<" ", "n", "o", " ", "p", "r", "\n">>],
     [url |-> "https://github.com/a/b/pull/1", errMsg |-> <<" ">>]}

Top(es) == [t |-> "map", entries |-> es]
Doc(es) == [kind |-> "doc", top |-> Top(es)]
NoTop(t) == [t |-> t, entries |-> <<>>]

\* what <config-dir>/gh-rr.yml can hold
Files == {
    [kind |-> "missing", top |-> NoTop("absent")],
    [kind |-> "unreadable", top |-> NoTop("absent")],
    [kind |-> "empty", top |-> NoTop("absent")],
    [kind |-> "invalid", top |-> NoTop("absent")],
    [kind |-> "doc", top |-> NoTop("absent")],
    [kind |-> "doc", top |-> NoTop("null")],
    [kind |-> "doc", top |-> NoTop("seq")],
    Doc(<<Pair(AB, RMap(<<Pair(Default, GSeq(<<"alice">>))>>))>>),
    Doc(<<Pair(AB, RSeq(<<"alice", "bob">>))>>),
    Doc(<<Pair(AbMixed, RMap(<<Pair(Default, GSeq(<<"alice">>)),
                               Pair(Infra, GSeq(<<"bob", "carol">>))>>))>>),
    Doc(<<Pair(Star, RMap(<<Pair(Security, GSeq(<<"dana">>))>>)),
          Pair(AB, RMap(<<Pair(Default, GSeq(<<"alice">>))>>))>>),
    Doc(<<Pair(Star, RMap(<<Pair(Default, GSeq(<<"dana">>))>>)),
          Pair(AB, RMap(<<Pair(Default, GSeq(<<"alice">>)),
                          Pair(Security, GSeq(<<"bob">>))>>)),
          Pair(CD, RSeq(<<"carol">>))>>),
    Doc(<<Pair(AbMixed, RMap(<<Pair(Default, GSeq(<<"alice">>))>>)),
          Pair(AB, RMap(<<Pair(Default, GSeq(<<"bob">>))>>))>>),
    Doc(<<Pair(AB, RNull)>>),
    Doc(<<Pair(AB, RMap(<<>>))>>),
    Doc(<<Pair(AB, RScalar)>>),
    Doc(<<Pair(AB, RBadSeq)>>),
    Doc(<<Pair(AB, RMap(<<Pair(Default, GScalar)>>))>>),
    Doc(<<Pair(AB, RSeq(<<>>)), Pair(CD, RMap(<<Pair(Default, GNull)>>))>>),
    Doc(<<Pair(AB, RSeq(<<"alice", "alice">>)),
          Pair(Star, RSeq(<<"bob", "alice">>))>>),
    Doc(<<Pair(AB, RMap(<<Pair(DefaultUpper, GSeq(<<"alice">>))>>))>>),
    Doc(<<Pair(AB, RSeq(<<"alice">>)), Pair(AB, RSeq(<<"bob">>))>>)
}

----------------------------------------------------------------------------
\* Output lines: what was printed (k) and the values formatted into it

Line(k, cs, cs2, str, path) == [k |-> k, cs |-> cs, cs2 |-> cs2, s |-> str, path |-> path]
Msg(k) == Line(k, <<>>, <<>>, "", <<>>)

IsSpace(c) == c \in {" ", "\n", "\t", "\r"}

\* strings.TrimSpace
RECURSIVE TrimLeft(_)
TrimLeft(s) == IF s # <<>> /\ IsSpace(Head(s)) THEN TrimLeft(Tail(s)) ELSE s

RECURSIVE TrimRight(_)
TrimRight(s) ==
    IF s # <<>> /\ IsSpace(s[Len(s)]) THEN TrimRight(SubSeq(s, 1, Len(s) - 1)) ELSE s

\* strings.TrimSpace that leaves the trailing white space
TrimSpaceLeftOnly(s) == TrimLeft(s)

TrimSpace(s) == TrimRight(TrimLeft(s))

\* the reviewer lines, last reviewer first
ReviewerLinesReversed(rs) ==
    [i \in 1..Len(rs) |-> Line("reviewer", <<>>, <<>>, rs[Len(rs) + 1 - i], <<>>)]

\* the "  - %s" lines printed for the reviewers
ReviewerLines(rs) == [i \in 1..Len(rs) |-> Line("reviewer", <<>>, <<>>, rs[i], <<>>)]

\* filepath.Join(dir, "gh-rr.yml")
ConfigFileName == "gh-rr.yml"
JoinPath(dir, name) == <<dir, name>>

HomeDir == "home"
OtherDir == "dir"

----------------------------------------------------------------------------
\* The state of a run before it starts

\* os.Args[1:] before run is called
NoArgs ==
    [repo |-> <<>>, from |-> <<>>, global |-> FALSE, configDir |-> <<>>,
     dryRun |-> FALSE, positional |-> <<>>, extra |-> ""]

\* url and errMsg before the executor has returned
NoOutput == [url |-> "", errMsg |-> <<>>]

NoFlags ==
    [repoF |-> <<>>, group |-> Default, globalGroups |-> FALSE,
     configDir |-> HomeDir, isDryRun |-> FALSE, target |-> ""]

RunInit ==
    /\ pc = "start"
    /\ flags = NoFlags
    /\ repo = <<>>
    /\ confPath = <<>>
    /\ Path = <<>>
    /\ repos = EmptyMap
    /\ pending = {}
    /\ conf = EmptyMap
    /\ loadErr = ErrNil
    /\ reviewers = <<>>
    /\ err = ErrNil
    /\ stdout = <<>>
    /\ stderr = <<>>
    /\ osStderr = <<>>
    /\ ghCalls = <<>>
    /\ ghOut = NoOutput
    /\ exit = -1
    /\ last = "none"

Init ==
    /\ file \in Files
    /\ homeOk \in BOOLEAN
    /\ osArgs = NoArgs
    /\ runs = 1
    /\ prev = <<>>
    /\ RunInit

\* a return from run that loses the code
ReturnZero(code) == pc' = "done" /\ exit' = 0 /\ last' = pc

\* return code from run
Return(code) == pc' = "done" /\ exit' = code /\ last' = pc

\* run goes on with its next step
Continue(next) == pc' = next /\ UNCHANGED <<exit, last>>

----------------------------------------------------------------------------
\* the command lines: a flag that takes a value is absent (the empty
\* sequence) or holds its value; extra is a --help or an undeclared flag
CommandLines ==
    [repo : RepoArgs,
     from : {<<>>} \cup {<<g>> : g \in FromArgs},
     global : BOOLEAN,
     configDir : {<<>>, <<OtherDir>>},
     dryRun : BOOLEAN,
     positional : Positionals,
     extra : {"", "--help", "--blah"}]

\* --from with "Default" for its default value
GroupFlagDefaultUpper(from) ==
    IF from = <<>> THEN <<"D", "e", "f", "a", "u", "l", "t">> ELSE from[1]

\* run, line 497: the value of --from, "default" when the flag is absent
GroupFlag(from) == IF from = <<>> THEN Default ELSE from[1]

\* run, line 499: the value of --config-dir, the home directory when the flag
\* is absent
ConfigDirFlag(configDir) == IF configDir = <<>> THEN HomeDir ELSE configDir[1]

\* cli.Arg(0) taking the last positional argument
Arg0Last(positional) ==
    IF positional = <<>> THEN "" ELSE positional[Len(positional)]

\* run, line 516: cli.Arg(0), the empty string without positional arguments
Arg0(positional) == IF positional = <<>> THEN "" ELSE positional[1]

\* the exit code of a failed parse without the test for flag.ErrHelp
ParseExitAlwaysOne(outcome) == 1

\* run, lines 506-513: the exit code when cli.Parse returns an error
ParseExit(outcome) == IF outcome = "help" THEN 0 ELSE 1

\* run, lines 494-514: the flags are declared (the default of --config-dir is
\* computed by mustGetUserHomeDir, which panics without a home directory)
\* and the command line is parsed
ParseFlags ==
    /\ pc = "start"
    /\ osArgs' \in CommandLines
    /\ IF ~homeOk
       THEN /\ Continue("panicked")
            /\ UNCHANGED <<flags, stderr>>
       ELSE IF osArgs'.extra = "--help"
       THEN /\ stderr' = stderr \o <<Msg("usage")>>
            /\ Return(ParseExit("help"))
            /\ UNCHANGED flags
       ELSE IF osArgs'.extra = "--blah"
       THEN /\ stderr' = stderr \o <<Msg("unknown flag")>>
            /\ Return(ParseExit("unknown"))
            /\ UNCHANGED flags
       ELSE /\ flags' = [repoF |-> osArgs'.repo,
                         group |-> GroupFlag(osArgs'.from),
                         globalGroups |-> osArgs'.global,
                         configDir |-> ConfigDirFlag(osArgs'.configDir),
                         isDryRun |-> osArgs'.dryRun,
                         target |-> Arg0(osArgs'.positional)]
            /\ Continue("repo")
            /\ UNCHANGED stderr
    /\ UNCHANGED <<file, homeOk, repo, confPath, Path, repos, pending, conf, loadErr,
                   reviewers, err, stdout, osStderr, ghCalls, ghOut, runs, prev>>

\* the repository step going on to the load, past the validation
DetermineRepositoryThenLoad ==
    /\ pc = "repo"
    /\ IF flags.repoF # <<>>
       THEN /\ repo' = flags.repoF
            /\ Continue("load")
            /\ UNCHANGED osStderr
       ELSE \E currentRepo \in CurrentRepos :
            IF ~currentRepo.ok
            THEN /\ osStderr' = osStderr \o <<Msg("could not determine repository")>>
                 /\ Return(1)
                 /\ UNCHANGED repo
            ELSE /\ repo' = currentRepo.Owner \o <<SLASH>> \o currentRepo.Name
                 /\ Continue("load")
                 /\ UNCHANGED osStderr
    /\ UNCHANGED <<file, homeOk, osArgs, flags, confPath, Path, repos, pending, conf, loadErr,
                   reviewers, err, stdout, stderr, ghCalls, ghOut, runs, prev>>

\* run, lines 518-530: the repository is the flag's value, else the current one
DetermineRepository ==
    /\ pc = "repo"
    /\ IF flags.repoF # <<>>
       THEN /\ repo' = flags.repoF
            /\ Continue("validate")
            /\ UNCHANGED osStderr
       ELSE \E currentRepo \in CurrentRepos :
            IF ~currentRepo.ok
            THEN /\ osStderr' = osStderr \o <<Msg("could not determine repository")>>
                 /\ Return(1)
                 /\ UNCHANGED repo
            ELSE /\ repo' = currentRepo.Owner \o <<SLASH>> \o currentRepo.Name
                 /\ Continue("validate")
                 /\ UNCHANGED osStderr
    /\ UNCHANGED <<file, homeOk, osArgs, flags, confPath, Path, repos, pending, conf, loadErr,
                   reviewers, err, stdout, stderr, ghCalls, ghOut, runs, prev>>

\* the condition of line 532 without the test for the "http" prefix
RepositoryFormatOkAnyPrefix(r) == CutFound(r, SLASH)

\* the condition of run, line 532
RepositoryFormatOk(r) == ~(~CutFound(r, SLASH) \/ HasPrefix(r, Http))

\* run, lines 532-536
ValidateRepository ==
    /\ pc = "validate"
    /\ IF ~RepositoryFormatOk(repo)
       THEN /\ stderr' = stderr \o <<Msg("repository should be in the format")>>
            /\ Return(1)
       ELSE /\ Continue("load")
            /\ UNCHANGED stderr
    /\ UNCHANGED <<file, homeOk, osArgs, flags, repo, confPath, Path, repos, pending, conf,
                   loadErr, reviewers, err, stdout, osStderr, ghCalls, ghOut, runs, prev>>

ErrNotExist == "os.ErrNotExist"
ErrRead == "read error"
ErrYaml == "yaml error"

\* the line for a failed load without the test for a missing file
LoadErrorLineRaw(e, path) == Line("error", <<>>, <<>>, e, <<>>)

\* run, lines 541-547: the line printed for a failed load
LoadErrorLine(e, path) ==
    IF e = ErrNotExist
    THEN Line("please create", <<>>, <<>>, "", path)
    ELSE Line("error", <<>>, <<>>, e, <<>>)

\* decoding that takes empty content for text that is not YAML
DecodeStartEmptyFails(f) ==
    IF f.kind \in {"invalid", "empty"} THEN [ok |-> FALSE, val |-> EmptyMap]
    ELSE IF f.top.t \in {"absent", "null"}
         THEN [ok |-> TRUE, val |-> EmptyMap]
         ELSE UnmarshalRepos(f.top)

\* yaml.Unmarshal(out, &conf) up to the call of repositories.UnmarshalYAML:
\* empty content and a document without a repositories value decode to
\* nothing, text that is not YAML fails
DecodeStart(f) ==
    IF f.kind = "invalid" THEN [ok |-> FALSE, val |-> EmptyMap]
    ELSE IF f.kind = "empty" \/ f.top.t \in {"absent", "null"}
         THEN [ok |-> TRUE, val |-> EmptyMap]
         ELSE UnmarshalRepos(f.top)

\* run, lines 538-550, with parseConfig, lines 432-441, and
\* repositories.UnmarshalYAML, lines 419-423: the file is read and its
\* entries are decoded into repos; a failure is reported and ends the run
LoadConfig ==
    /\ pc = "load"
    /\ confPath' = JoinPath(flags.configDir, ConfigFileName)
    /\ IF file.kind \in {"missing", "unreadable"}
       THEN /\ loadErr' = (IF file.kind = "missing" THEN ErrNotExist ELSE ErrRead)
            /\ stderr' = Append(stderr, LoadErrorLine(loadErr', confPath'))
            /\ Return(1)
            /\ UNCHANGED <<repos, pending>>
       ELSE IF ~DecodeStart(file).ok
       THEN /\ loadErr' = ErrYaml
            /\ stderr' = Append(stderr, LoadErrorLine(loadErr', confPath'))
            /\ Return(1)
            /\ UNCHANGED <<repos, pending>>
       ELSE /\ repos' = DecodeStart(file).val
            /\ pending' = DOMAIN repos'
            /\ Continue("decoding")
            /\ UNCHANGED <<loadErr, stderr>>
    /\ UNCHANGED <<file, homeOk, osArgs, Path, flags, repo, conf, reviewers, err, stdout,
                   osStderr, ghCalls, ghOut, runs, prev>>

\* an iteration of the range loop that does not move on to the next key
VisitEntryAgain ==
    /\ pc = "decoding"
    /\ \E s \in pending :
        /\ conf' = MapSet(conf, ToLower(s), repos[s])
        /\ pending' = pending
    /\ UNCHANGED <<file, homeOk, osArgs, pc, flags, repo, confPath, Path, repos, loadErr,
                   reviewers, err, stdout, stderr, osStderr, ghCalls, ghOut, exit, last,
                   runs, prev>>

\* repositories.UnmarshalYAML, lines 425-427: one iteration of the range
\* loop over repos, which visits the keys in no fixed order
VisitEntry ==
    /\ pc = "decoding"
    /\ \E s \in pending :
        /\ conf' = MapSet(conf, ToLower(s), repos[s])
        /\ pending' = pending \ {s}
    /\ UNCHANGED <<file, homeOk, osArgs, pc, flags, repo, confPath, Path, repos, loadErr,
                   reviewers, err, stdout, stderr, osStderr, ghCalls, ghOut, exit, last,
                   runs, prev>>

\* repositories.UnmarshalYAML, line 429, and parseConfig, lines 443-447:
\* the loop is over and the config is returned without error
FinishLoad ==
    /\ pc = "decoding"
    /\ pending = {}
    /\ Continue("resolve")
    /\ UNCHANGED <<file, homeOk, osArgs, flags, repo, confPath, Path, repos, pending, conf,
                   loadErr, reviewers, err, stdout, stderr, osStderr, ghCalls, ghOut,
                   runs, prev>>

\* the lookup key without the substitution of "*"
LookupKeyIgnoresGlobal(r, globalGroups) == ToLower(r)

\* the lookup key with the test of the global flag inverted
LookupKeyInverted(r, globalGroups) == ToLower(IF globalGroups THEN r ELSE Star)

\* run, lines 552-557: the key the reviewers are looked up under
LookupKey(r, globalGroups) == ToLower(IF globalGroups THEN Star ELSE r)

\* run, lines 552-569
ResolveReviewers ==
    /\ pc = "resolve"
    /\ LET res == determineReviewers(conf, LookupKey(repo, flags.globalGroups), flags.group)
       IN  /\ reviewers' = res.reviewers
           /\ err' = res.err
           /\ IF res.err = ErrRepositoryNotConfigured
              THEN /\ stderr' = stderr \o
                        <<Line("no reviewers are configured for", repo, <<>>, "", <<>>)>>
                   /\ Return(1)
              ELSE IF res.err = ErrGroupNotConfigured
              THEN /\ stderr' = stderr \o
                        <<Line("does not have a group named", repo, flags.group, "", <<>>)>>
                   /\ Return(1)
              ELSE /\ Continue("act")
                   /\ UNCHANGED stderr
    /\ UNCHANGED <<file, homeOk, osArgs, flags, repo, confPath, Path, repos, pending, conf,
                   loadErr, stdout, osStderr, ghCalls, ghOut, runs, prev>>

\* a dry run that calls the executor all the same
DryRunInvoking ==
    /\ pc = "act"
    /\ flags.isDryRun
    /\ ghCalls' = Append(ghCalls, buildAddReviewersArgs(repo, flags.target, reviewers))
    /\ stdout' = stdout \o <<Line("would have used", repo, <<>>, "", <<>>)>>
                        \o ReviewerLines(reviewers)
    /\ Return(0)
    /\ UNCHANGED <<file, homeOk, osArgs, flags, repo, confPath, Path, repos, pending,
                   conf, loadErr, reviewers, err, stderr, osStderr, ghOut, runs, prev>>

\* run, lines 571-572 and 585-589: a dry run prints what it would do
DryRun ==
    /\ pc = "act"
    /\ flags.isDryRun
    /\ stdout' = stdout \o <<Line("would have used", repo, <<>>, "", <<>>)>>
                        \o ReviewerLines(reviewers)
    /\ Return(0)
    /\ UNCHANGED <<file, homeOk, osArgs, flags, repo, confPath, Path, repos, pending, conf,
                   loadErr, reviewers, err, stderr, osStderr, ghCalls, ghOut, runs, prev>>

\* the executor step with an argument builder that uses up the reviewers
\* it is given
InvokeExecutorConsuming ==
    /\ pc = "act"
    /\ ~flags.isDryRun
    /\ ghCalls' = Append(ghCalls, buildAddReviewersArgs(repo, flags.target, reviewers))
    /\ reviewers' = <<>>
    /\ \E res \in GhResults :
        /\ ghOut' = res
        /\ IF res.errMsg # <<>>
           THEN /\ stdout' = stdout \o
                    <<Line("could not add reviewers", TrimSpace(res.errMsg), <<>>, "", <<>>)>>
                /\ Return(1)
           ELSE /\ stdout' = stdout \o <<Line("requested reviews on", <<>>, <<>>, res.url, <<>>)>>
                                    \o ReviewerLines(reviewers)
                /\ Return(0)
    /\ UNCHANGED <<file, homeOk, osArgs, flags, repo, confPath, Path, repos, pending, conf,
                   loadErr, err, stderr, osStderr, runs, prev>>

\* run, lines 573-589: the executor is invoked and its outcome printed
InvokeExecutor ==
    /\ pc = "act"
    /\ ~flags.isDryRun
    /\ ghCalls' = Append(ghCalls, buildAddReviewersArgs(repo, flags.target, reviewers))
    /\ \E res \in GhResults :
        /\ ghOut' = res
        /\ IF res.errMsg # <<>>
           THEN /\ stdout' = stdout \o
                    <<Line("could not add reviewers", TrimSpace(res.errMsg), <<>>, "", <<>>)>>
                /\ Return(1)
           ELSE /\ stdout' = stdout \o <<Line("requested reviews on", <<>>, <<>>, res.url, <<>>)>>
                                    \o ReviewerLines(reviewers)
                /\ Return(0)
    /\ UNCHANGED <<file, homeOk, osArgs, flags, repo, confPath, Path, repos, pending, conf,
                   loadErr, reviewers, err, stderr, osStderr, runs, prev>>

\* what a finished run leaves for the comparison with the next one: the
\* outcome of its resolution step when it ran in global mode
Summary ==
    IF pc = "done" /\ flags.globalGroups /\ last \in {"resolve", "act"}
    THEN <<[repo |-> repo, group |-> flags.group, err |-> err, reviewers |-> reviewers]>>
    ELSE <<>>

\* main, lines 592-598: the program is started again, on the same file
NextRun ==
    /\ pc \in {"done", "panicked"}
    /\ runs < MaxRuns
    /\ runs' = runs + 1
    /\ prev' = Summary
    /\ pc' = "start"
    /\ flags' = NoFlags
    /\ repo' = <<>>
    /\ confPath' = <<>>
    /\ Path' = <<>>
    /\ osArgs' = NoArgs
    /\ repos' = EmptyMap
    /\ pending' = {}
    /\ conf' = EmptyMap
    /\ loadErr' = ErrNil
    /\ reviewers' = <<>>
    /\ err' = ErrNil
    /\ stdout' = <<>>
    /\ stderr' = <<>>
    /\ osStderr' = <<>>
    /\ ghCalls' = <<>>
    /\ ghOut' = NoOutput
    /\ exit' = -1
    /\ last' = "none"
    /\ UNCHANGED <<file, homeOk>>

Next ==
    \/ ParseFlags
    \/ DetermineRepository
    \/ ValidateRepository
    \/ LoadConfig
    \/ VisitEntry
    \/ FinishLoad
    \/ ResolveReviewers
    \/ DryRun
    \/ InvokeExecutor
    \/ NextRun

Spec == Init /\ [][Next]_vars

\* the steps of run
RunStep ==
    \/ ParseFlags
    \/ DetermineRepository
    \/ ValidateRepository
    \/ LoadConfig
    \/ VisitEntry
    \/ FinishLoad
    \/ ResolveReviewers
    \/ DryRun
    \/ InvokeExecutor

\* one run on its own; run is sequential code whose calls return, so a run
\* that can take a step takes it
SpecRun == Init /\ [][RunStep]_vars /\ WF_vars(RunStep)

----------------------------------------------------------------------------
\* buildAddReviewersArgs on its own: every repository, target and reviewer
\* sequence within the bounds

Users == {"alice", "bob", "carol"}
ReviewerSeqs == UNION {[1..n -> Users] : n \in 0..MaxReviewers}
Targets == {"", "123", "my-branch"}

InitBuild ==
    /\ file = [kind |-> "empty", top |-> NoTop("absent")]
    /\ homeOk = TRUE
    /\ osArgs = NoArgs
    /\ runs = 1
    /\ prev = <<>>
    /\ pc = "build"
    /\ flags \in {[NoFlags EXCEPT !.target = t] : t \in Targets}
    /\ repo \in RepoArgs
    /\ confPath = <<>>
    /\ Path = <<>>
    /\ repos = EmptyMap
    /\ pending = {}
    /\ conf = EmptyMap
    /\ loadErr = ErrNil
    /\ reviewers \in ReviewerSeqs
    /\ err = ErrNil
    /\ stdout = <<>>
    /\ stderr = <<>>
    /\ osStderr = <<>>
    /\ ghCalls = <<>>
    /\ ghOut = NoOutput
    /\ exit = -1
    /\ last = "none"

\* a call of buildAddReviewersArgs, lines 467-475
BuildArgs ==
    /\ pc = "build"
    /\ ghCalls' = <<buildAddReviewersArgs(repo, flags.target, reviewers)>>
    /\ pc' = "built"
    /\ UNCHANGED <<file, homeOk, osArgs, flags, repo, confPath, Path, repos, pending, conf,
                   loadErr, reviewers, err, stdout, stderr, osStderr, ghOut, exit, last,
                   runs, prev>>

SpecBuild == InitBuild /\ [][BuildArgs]_vars

----------------------------------------------------------------------------
\* loadConfigFile of the revision that keeps the file's path in the config
\* (lines 199-230): Config has the fields Repositories, under the key
\* "repositories", and Path, whose tag is empty so that the decoder takes the
\* lower-cased field name, "path", for its key

\* the value of a top-level "path" key in the file
PathAbsent == [t |-> "absent", v |-> <<>>]
PathKeys ==
    {PathAbsent,
     [t |-> "str", v |-> <<"elsewhere">>],
     [t |-> "str", v |-> <<HomeDir, ConfigFileName>>],
     [t |-> "null", v |-> <<>>],
     [t |-> "seq", v |-> <<>>]}

\* the files: those of Files, the documents with every value of "path"
PathFiles ==
    {[kind |-> f.kind, top |-> f.top, path |-> p] :
        f \in {g \in Files : g.kind = "doc"}, p \in PathKeys}
    \cup {[kind |-> f.kind, top |-> f.top, path |-> PathAbsent] :
            f \in {g \in Files : g.kind # "doc"}}

\* the field Repositories, map[string]map[string][]string, decoded without a
\* hook: a repository's value is a mapping of groups or null
UnmarshalRepositories(top) ==
    IF top.t \in {"absent", "null"} THEN [ok |-> TRUE, val |-> EmptyMap]
    ELSE IF /\ top.t = "map"
            /\ UniqueKeys(top.entries)
            /\ \A i \in 1..Len(top.entries) :
                  \/ top.entries[i].n.t = "null"
                  \/ UnmarshalGroups(top.entries[i].n).ok
         THEN [ok |-> TRUE,
               val |-> [s \in Keys(top.entries) |->
                          IF ValueOf(top.entries, s).t = "null" THEN EmptyMap
                          ELSE UnmarshalGroups(ValueOf(top.entries, s)).val]]
         ELSE [ok |-> FALSE, val |-> EmptyMap]

\* the field Path, a string: a scalar replaces the value the field has, a
\* null or an absent key leaves it, anything else is a type error
UnmarshalPath(p, current) ==
    IF p.t = "str" THEN [ok |-> TRUE, val |-> p.v]
    ELSE IF p.t \in {"absent", "null"} THEN [ok |-> TRUE, val |-> current]
         ELSE [ok |-> FALSE, val |-> current]

InitLoadFile ==
    /\ file \in PathFiles
    /\ homeOk = TRUE
    /\ osArgs = NoArgs
    /\ runs = 1
    /\ prev = <<>>
    /\ pc = "stat"
    /\ flags \in {[NoFlags EXCEPT !.configDir = d] : d \in {HomeDir, OtherDir}}
    /\ repo = <<>>
    /\ confPath = <<>>
    /\ Path = <<>>
    /\ repos = EmptyMap
    /\ pending = {}
    /\ conf = EmptyMap
    /\ loadErr = ErrNil
    /\ reviewers = <<>>
    /\ err = ErrNil
    /\ stdout = <<>>
    /\ stderr = <<>>
    /\ osStderr = <<>>
    /\ ghCalls = <<>>
    /\ ghOut = NoOutput
    /\ exit = -1
    /\ last = "none"

\* loadConfigFile, lines 222-227: the path is computed and the file looked for
StatConfigFile ==
    /\ pc = "stat"
    /\ confPath' = JoinPath(flags.configDir, ConfigFileName)
    /\ IF file.kind = "missing"
       THEN /\ Path' = confPath'
            /\ loadErr' = ErrNotExist
            /\ pc' = "returned"
       ELSE /\ pc' = "read"
            /\ UNCHANGED <<Path, loadErr>>
    /\ UNCHANGED <<file, homeOk, osArgs, flags, repo, repos, pending, conf, reviewers,
                   err, stdout, stderr, osStderr, ghCalls, ghOut, exit, last, runs, prev>>

\* parseConfig, lines 204-211: the config starts with the path and the file
\* is read
ReadConfigFile ==
    /\ pc = "read"
    /\ Path' = confPath
    /\ IF file.kind = "unreadable"
       THEN loadErr' = ErrRead /\ pc' = "returned"
       ELSE pc' = "unmarshal" /\ UNCHANGED loadErr
    /\ UNCHANGED <<file, homeOk, osArgs, flags, repo, confPath, repos, pending, conf,
                   reviewers, err, stdout, stderr, osStderr, ghCalls, ghOut, exit, last,
                   runs, prev>>

\* parseConfig, lines 213-219: the content is decoded into the config; the
\* repositories of a config returned with an error are not modelled
UnmarshalConfig ==
    /\ pc = "unmarshal"
    /\ IF file.kind = "invalid"
       THEN /\ loadErr' = ErrYaml
            /\ UNCHANGED <<Path, conf>>
       ELSE IF file.kind = "empty"
       THEN UNCHANGED <<Path, conf, loadErr>>
       ELSE LET r == UnmarshalRepositories(file.top)
                p == UnmarshalPath(file.path, Path)
            IN  /\ Path' = p.val
                /\ conf' = (IF r.ok /\ p.ok THEN r.val ELSE EmptyMap)
                /\ loadErr' = (IF r.ok /\ p.ok THEN ErrNil ELSE ErrYaml)
    /\ pc' = "returned"
    /\ UNCHANGED <<file, homeOk, osArgs, flags, repo, confPath, repos, pending,
                   reviewers, err, stdout, stderr, osStderr, ghCalls, ghOut, exit, last,
                   runs, prev>>

NextLoadFile ==
    \/ StatConfigFile
    \/ ReadConfigFile
    \/ UnmarshalConfig

SpecLoadFile == InitLoadFile /\ [][NextLoadFile]_vars

----------------------------------------------------------------------------
\* determineReviewers on its own: every config within the bounds

ConfigUsers == {"alice", "bob"}
ConfigSeqs == UNION {[1..n -> ConfigUsers] : n \in 0..MaxReviewers}
GroupMaps == UNION {[G -> ConfigSeqs] : G \in SUBSET {Default, Infra}}
Configs == UNION {[R -> GroupMaps] : R \in SUBSET {AB, Star}}

InitResolve ==
    /\ file = [kind |-> "empty", top |-> NoTop("absent")]
    /\ homeOk = TRUE
    /\ osArgs = NoArgs
    /\ runs = 1
    /\ prev = <<>>
    /\ pc = "lookup"
    /\ flags \in {[NoFlags EXCEPT !.group = g] : g \in {Default, Infra, Security}}
    /\ repo \in {AB, CD, Star}
    /\ confPath = <<>>
    /\ Path = <<>>
    /\ repos = EmptyMap
    /\ pending = {}
    /\ conf \in Configs
    /\ loadErr = ErrNil
    /\ reviewers = <<>>
    /\ err = ErrNil
    /\ stdout = <<>>
    /\ stderr = <<>>
    /\ osStderr = <<>>
    /\ ghCalls = <<>>
    /\ ghOut = NoOutput
    /\ exit = -1
    /\ last = "none"

\* a call of determineReviewers, lines 453-465
Lookup ==
    /\ pc = "lookup"
    /\ LET res == determineReviewers(conf, repo, flags.group)
       IN  reviewers' = res.reviewers /\ err' = res.err
    /\ pc' = "looked"
    /\ UNCHANGED <<file, homeOk, osArgs, flags, repo, confPath, Path, repos, pending, conf,
                   loadErr, stdout, stderr, osStderr, ghCalls, ghOut, exit, last, runs, prev>>

SpecResolve == InitResolve /\ [][Lookup]_vars

----------------------------------------------------------------------------
\* Loading and resolving on its own: every file of one or two repository
\* entries whose values are lists, one-group mappings, null or a scalar

GenNodes ==
    {RSeq(L) : L \in ConfigSeqs}
    \cup {RMap(<<Pair(g, GSeq(L))>>) : g \in {Default, Infra}, L \in ConfigSeqs}
    \cup {RNull, RScalar, RMap(<<>>)}
GenEntries == {Pair(k, n) : k \in {AB, AbMixed, Star}, n \in GenNodes}
GenFiles == {Doc(<<e>>) : e \in GenEntries} \cup {Doc(<<e, f>>) : e, f \in GenEntries}

InitDecode ==
    /\ file \in GenFiles
    /\ homeOk = TRUE
    /\ osArgs = NoArgs
    /\ runs = 1
    /\ prev = <<>>
    /\ pc = "load"
    /\ flags \in {[NoFlags EXCEPT !.group = g, !.globalGroups = b] :
                    g \in {Default, Infra}, b \in BOOLEAN}
    /\ repo \in {AB, ABUpper, CD}
    /\ confPath = <<>>
    /\ Path = <<>>
    /\ repos = EmptyMap
    /\ pending = {}
    /\ conf = EmptyMap
    /\ loadErr = ErrNil
    /\ reviewers = <<>>
    /\ err = ErrNil
    /\ stdout = <<>>
    /\ stderr = <<>>
    /\ osStderr = <<>>
    /\ ghCalls = <<>>
    /\ ghOut = NoOutput
    /\ exit = -1
    /\ last = "none"

NextDecode ==
    \/ LoadConfig
    \/ VisitEntry
    \/ FinishLoad
    \/ ResolveReviewers

SpecDecode == InitDecode /\ [][NextDecode]_vars

----------------------------------------------------------------------------
\* parseConfig called twice on the same text: prev keeps the config of the
\* first call

InitDecodeTwice ==
    /\ file \in GenFiles
    /\ homeOk = TRUE
    /\ osArgs = NoArgs
    /\ runs = 1
    /\ prev = <<>>
    /\ pc = "load"
    /\ flags = NoFlags
    /\ repo = AB
    /\ confPath = <<>>
    /\ Path = <<>>
    /\ repos = EmptyMap
    /\ pending = {}
    /\ conf = EmptyMap
    /\ loadErr = ErrNil
    /\ reviewers = <<>>
    /\ err = ErrNil
    /\ stdout = <<>>
    /\ stderr = <<>>
    /\ osStderr = <<>>
    /\ ghCalls = <<>>
    /\ ghOut = NoOutput
    /\ exit = -1
    /\ last = "none"

\* the config of the first call is kept and parseConfig is called again
DecodeAgain ==
    /\ pc = "resolve"
    /\ prev = <<>>
    /\ prev' = <<conf>>
    /\ conf' = EmptyMap
    /\ repos' = EmptyMap
    /\ pc' = "load"
    /\ UNCHANGED <<file, homeOk, osArgs, flags, repo, confPath, Path, pending, loadErr,
                   reviewers, err, stdout, stderr, osStderr, ghCalls, ghOut, exit, last,
                   runs>>

NextDecodeTwice ==
    \/ LoadConfig
    \/ VisitEntry
    \/ FinishLoad
    \/ DecodeAgain

SpecDecodeTwice == InitDecodeTwice /\ [][NextDecodeTwice]_vars

----------------------------------------------------------------------------
\* Properties

\* C1: buildAddReviewersArgs(repository, target, R) is "pr", "edit", target,
\* "--repo", repository followed by the pair "--add-reviewer", r for each r
\* of R in R's order, duplicates kept: 5 + 2*Len(R) elements, five when R is
\* empty.
C1_ArgsExact ==
    pc = "built" =>
        LET a == ghCalls[1]
        IN  /\ Len(a) = 5 + 2 * Len(reviewers)
            /\ a[1] = "pr" /\ a[2] = "edit" /\ a[3] = flags.target
            /\ a[4] = "--repo" /\ a[5] = repo
            /\ \A i \in 1..Len(reviewers) :
                  a[4 + 2 * i] = "--add-reviewer" /\ a[5 + 2 * i] = reviewers[i]
            /\ (reviewers = <<>> => Len(a) = 5)

\* C1 witness: the vector was built for a sequence that names a reviewer twice
C1_Witness ==
    /\ pc = "built"
    /\ Len(reviewers) = 2
    /\ reviewers[1] = reviewers[2]
    /\ Len(ghCalls[1]) = 9

\* C2: determineReviewers fails with RepositoryNotConfigured and no
\* reviewers when the repository key is absent, whatever the group, and with
\* GroupNotConfigured and no reviewers when the repository is present and
\* the group is absent under it; neither error is returned in the other case.
C2_NotConfiguredErrors ==
    pc = "looked" =>
        /\ repo \notin DOMAIN conf =>
              err = ErrRepositoryNotConfigured /\ reviewers = <<>>
        /\ (repo \in DOMAIN conf /\ flags.group \notin DOMAIN conf[repo]) =>
              err = ErrGroupNotConfigured /\ reviewers = <<>>
        /\ err = ErrRepositoryNotConfigured => repo \notin DOMAIN conf
        /\ err = ErrGroupNotConfigured =>
              repo \in DOMAIN conf /\ flags.group \notin DOMAIN conf[repo]

\* C2 witness: the group is missing under a configured repository while
\* another repository declares it
C2_Witness ==
    /\ pc = "looked"
    /\ err = ErrGroupNotConfigured
    /\ repo \in DOMAIN conf
    /\ \E r \in DOMAIN conf : flags.group \in DOMAIN conf[r]

\* C3: with the repository and the group both present determineReviewers
\* returns no error and the configured sequence verbatim, also when that
\* sequence is empty.
C3_ConfiguredVerbatim ==
    (pc = "looked" /\ repo \in DOMAIN conf /\ flags.group \in DOMAIN conf[repo]) =>
        /\ err = ErrNil
        /\ Len(reviewers) = Len(conf[repo][flags.group])
        /\ \A i \in 1..Len(reviewers) : reviewers[i] = conf[repo][flags.group][i]

\* C3 witness: a group declared with an empty list resolved without error
C3_Witness ==
    /\ pc = "looked"
    /\ repo \in DOMAIN conf
    /\ flags.group \in DOMAIN conf[repo]
    /\ conf[repo][flags.group] = <<>>
    /\ err = ErrNil
    /\ reviewers = <<>>

\* the entries of the file's repositories mapping
Entries == file.top.entries

\* the value is a flat list of usernames, and the list it holds
IsFlatList(n) == n.t = "seq" /\ \A i \in 1..Len(n.items) : n.items[i].t = "str"
ListOf(n) == [i \in 1..Len(n.items) |-> n.items[i].v]

\* no other entry of the file has a key with the same lower-case form
OnlyKey(i) ==
    \A j \in 1..Len(Entries) : ToLower(Entries[j].k) = ToLower(Entries[i].k) => j = i

\* the range loop of repositories.UnmarshalYAML is over
LoopDone == pc \in {"resolve", "act"} \/ (pc = "done" /\ last \in {"resolve", "act"})

\* determineReviewers has returned to run
Resolved == pc = "act" \/ (pc = "done" /\ last \in {"resolve", "act"})

DeclaredGroups(i) == UnmarshalRepositoryValue(Entries[i].n).Groups

\* C5: repository lookup is case-insensitive: a run for repository Q resolves
\* the groups declared under every config key K whose lower-case form is
\* that of Q.
C5_CaseInsensitiveLookup ==
    (Resolved /\ ~flags.globalGroups) =>
        \A i \in 1..Len(Entries) :
            ToLower(Entries[i].k) = ToLower(repo) =>
                IF flags.group \in DOMAIN DeclaredGroups(i)
                THEN err = ErrNil /\ reviewers = DeclaredGroups(i)[flags.group]
                ELSE err = ErrGroupNotConfigured

\* C5, for the keys that share their lower-case form with no other key of
\* the file
C5_OnlyKeyLookup ==
    (Resolved /\ ~flags.globalGroups) =>
        \A i \in 1..Len(Entries) :
            (ToLower(Entries[i].k) = ToLower(repo) /\ OnlyKey(i)) =>
                IF flags.group \in DOMAIN DeclaredGroups(i)
                THEN err = ErrNil /\ reviewers = DeclaredGroups(i)[flags.group]
                ELSE err = ErrGroupNotConfigured

\* the entries of the file under the key "*"
StarEntries == {i \in 1..Len(Entries) : Entries[i].k = Star}

\* the entries of the file whose key matches the run's repository
RepoEntries == {i \in 1..Len(Entries) : ToLower(Entries[i].k) = ToLower(repo)}

\* C6: in global mode resolution consults the "*" key only: a group missing
\* under "*" is not found even when the run's repository declares it (exit
\* code 1), a group declared under both resolves to the list under "*", and
\* outside global mode a repository that is not configured is not found even
\* when "*" declares the group.
C6_GlobalOnlyStar ==
    Resolved =>
        /\ flags.globalGroups =>
              /\ StarEntries = {} => err = ErrRepositoryNotConfigured
              /\ \A i \in StarEntries :
                    IF flags.group \in DOMAIN DeclaredGroups(i)
                    THEN err = ErrNil /\ reviewers = DeclaredGroups(i)[flags.group]
                    ELSE err = ErrGroupNotConfigured
        /\ (~flags.globalGroups /\ RepoEntries = {}) => err = ErrRepositoryNotConfigured
        /\ err # ErrNil =>
              pc = "done" /\ exit = 1 /\ reviewers = <<>> /\ ghCalls = <<>>

\* C6 witness: a global run failed for a group that the run's repository
\* declares and "*" does not
C6_Witness ==
    /\ Resolved
    /\ flags.globalGroups
    /\ StarEntries # {}
    /\ err = ErrGroupNotConfigured
    /\ exit = 1
    /\ \E i \in RepoEntries : flags.group \in DOMAIN DeclaredGroups(i)

\* C7: two runs in global mode, on the same file and for the same group,
\* resolve the same reviewers or fail with the same error, whatever
\* repositories they target; a failed resolution ends the run with exit
\* code 1.
C7_GlobalSameForAnyRepository ==
    (Resolved /\ flags.globalGroups /\ prev # <<>> /\ prev[1].group = flags.group) =>
        /\ err = prev[1].err
        /\ reviewers = prev[1].reviewers
        /\ err # ErrNil => exit = 1

\* C7 witness: two global runs for repositories that declare different
\* reviewers for the group resolved the same reviewers
C7_Witness ==
    /\ Resolved
    /\ flags.globalGroups
    /\ prev # <<>>
    /\ prev[1].group = flags.group
    /\ ToLower(prev[1].repo) # ToLower(repo)
    /\ err = ErrNil
    /\ reviewers # <<>>
    /\ reviewers = prev[1].reviewers
    /\ \E i \in RepoEntries :
          /\ flags.group \in DOMAIN DeclaredGroups(i)
          /\ DeclaredGroups(i)[flags.group] # reviewers
    /\ \E j \in 1..Len(Entries) :
          /\ ToLower(Entries[j].k) = ToLower(prev[1].repo)
          /\ flags.group \in DOMAIN DeclaredGroups(j)
          /\ DeclaredGroups(j)[flags.group] # reviewers

\* the file exists, can be read and decodes
Decodable == file.kind \notin {"missing", "unreadable"} /\ DecodeStart(file).ok

\* C8: when the config file does not exist the run ends with exit code 1 and
\* one stderr line that carries the path <config-dir>/gh-rr.yml; a file that
\* exists and fails decoding ends the run with exit code 1 and the raw
\* error instead, and neither run gets past loading.
C8_MissingFileReported ==
    /\ (pc = "done" /\ last = "load") =>
          /\ exit = 1
          /\ ~Decodable
          /\ Len(stderr) = 1
          /\ IF file.kind = "missing"
             THEN /\ stderr[1].k = "please create"
                  /\ stderr[1].path = <<flags.configDir, "gh-rr.yml">>
                  /\ loadErr = ErrNotExist
             ELSE /\ stderr[1].k = "error"
                  /\ stderr[1].s = loadErr
                  /\ stderr[1].path = <<>>
                  /\ loadErr = (IF file.kind = "unreadable" THEN ErrRead ELSE ErrYaml)
    /\ (pc = "decoding" \/ LoopDone) => Decodable

\* C8 witness: a run with --config-dir found no file and named its path
C8_Witness ==
    /\ pc = "done"
    /\ last = "load"
    /\ file.kind = "missing"
    /\ flags.configDir = OtherDir
    /\ exit = 1
    /\ stderr = <<Line("please create", <<>>, <<>>, "", <<OtherDir, "gh-rr.yml">>)>>

\* C9: a dry run never invokes the executor, and when the config decodes and
\* the repository and group exist it ends with exit code 0 after writing to
\* stdout the line of the intended command and then every resolved reviewer,
\* one per line, in the resolved order.
C9_DryRun ==
    /\ flags.isDryRun => ghCalls = <<>>
    /\ (pc = "done" /\ flags.isDryRun /\ Resolved /\ err = ErrNil) =>
          /\ exit = 0
          /\ last = "act"
          /\ reviewers = conf[LookupKey(repo, flags.globalGroups)][flags.group]
          /\ Len(stdout) = 1 + Len(reviewers)
          /\ stdout[1].k = "would have used"
          /\ stdout[1].cs = repo
          /\ \A i \in 1..Len(reviewers) :
                stdout[1 + i].k = "reviewer" /\ stdout[1 + i].s = reviewers[i]

\* C9 witness: a dry run printed two different reviewers and ended with 0
C9_Witness ==
    /\ pc = "done"
    /\ flags.isDryRun
    /\ exit = 0
    /\ ghCalls = <<>>
    /\ Len(reviewers) = 2
    /\ reviewers[1] # reviewers[2]
    /\ Len(stdout) = 3

\* C10: the executor is invoked only after flag parsing, repository
\* determination and validation, config loading and reviewer resolution all
\* succeeded, at most once, and with exactly the vector "pr", "edit", target,
\* "--repo", repo and one "--add-reviewer" pair per resolved reviewer.
C10_ExecutorOnlyAfterSuccess ==
    /\ Len(ghCalls) <= 1
    /\ ghCalls # <<>> =>
          LET key == IF flags.globalGroups THEN Star ELSE ToLower(repo)
              a == ghCalls[1]
          IN  /\ pc = "done" /\ last = "act" /\ ~flags.isDryRun
              /\ stderr = <<>> /\ osStderr = <<>>
              /\ repo # <<>>
              /\ \E i \in 1..Len(repo) : repo[i] = SLASH
              /\ ~HasPrefix(repo, Http)
              /\ Decodable /\ loadErr = ErrNil
              /\ err = ErrNil
              /\ key \in DOMAIN conf
              /\ flags.group \in DOMAIN conf[key]
              /\ reviewers = conf[key][flags.group]
              /\ Len(a) = 5 + 2 * Len(reviewers)
              /\ a[1] = "pr" /\ a[2] = "edit" /\ a[3] = flags.target
              /\ a[4] = "--repo" /\ a[5] = repo
              /\ \A i \in 1..Len(reviewers) :
                    a[4 + 2 * i] = "--add-reviewer" /\ a[5 + 2 * i] = reviewers[i]
    /\ (pc = "panicked" \/ (pc = "done" /\ last # "act")) => ghCalls = <<>>

\* C10 witness: the executor was invoked once, for two resolved reviewers
C10_Witness ==
    /\ pc = "done"
    /\ last = "act"
    /\ Len(ghCalls) = 1
    /\ Len(reviewers) = 2
    /\ Len(ghCalls[1]) = 9
    /\ exit = 0

\* C11: once the executor has returned, a non-empty error output ends the run
\* with exit code 1 after printing that output with its leading and trailing
\* white space removed, and an empty error output ends it with exit code 0
\* after printing the returned URL followed by one line per reviewer.
C11_ExecutorOutcome ==
    (pc = "done" /\ last = "act" /\ ~flags.isDryRun) =>
        /\ Len(ghCalls) = 1
        /\ IF ghOut.errMsg # <<>>
           THEN LET e == ghOut.errMsg
                    t == stdout[1].cs
                IN  /\ exit = 1
                    /\ Len(stdout) = 1
                    /\ stdout[1].k = "could not add reviewers"
                    /\ t # <<>> => ~IsSpace(t[1]) /\ ~IsSpace(t[Len(t)])
                    /\ \E i \in 1..(Len(e) + 1) :
                          /\ i + Len(t) - 1 <= Len(e)
                          /\ t = SubSeq(e, i, i + Len(t) - 1)
                          /\ \A k \in 1..Len(e) :
                                (k < i \/ k > i + Len(t) - 1) => IsSpace(e[k])
           ELSE /\ exit = 0
                /\ Len(stdout) = 1 + Len(reviewers)
                /\ stdout[1].k = "requested reviews on"
                /\ stdout[1].s = ghOut.url
                /\ \A i \in 1..Len(reviewers) :
                      stdout[1 + i].k = "reviewer" /\ stdout[1 + i].s = reviewers[i]

\* C11 witness: the executor failed with white space around its message and
\* the run printed the message without it and ended with 1
C11_Witness ==
    /\ pc = "done"
    /\ last = "act"
    /\ ghOut.errMsg = <<" ", "n", "o", " ", "p", "r", "\n">>
    /\ stdout = <<Line("could not add reviewers", <<"n", "o", " ", "p", "r">>, <<>>, "", <<>>)>>
    /\ exit = 1

\* C12: every run that ends with a handled failure has written its message to
\* the run's stderr writer and returned exit code 1, without trying the
\* failed step again.
C12_FailuresToStderr ==
    /\ (pc = "done" /\ last \in {"repo", "validate", "load", "resolve"}) =>
          exit = 1 /\ stderr # <<>>
    /\ (pc = "done" /\ last = "act" /\ ghOut.errMsg # <<>>) =>
          exit = 1 /\ stderr # <<>>
    /\ Len(ghCalls) <= 1

\* C12, for the streams the code writes to: a failed inference writes to the
\* process' standard error, a failed executor call to the run's stdout
\* writer, every other handled failure one line to the run's stderr writer;
\* all end the run with exit code 1 and the executor is called at most once.
C12_FailureStreams ==
    /\ (pc = "done" /\ last \in {"validate", "load", "resolve"}) =>
          exit = 1 /\ Len(stderr) = 1 /\ stdout = <<>> /\ osStderr = <<>>
    /\ (pc = "done" /\ last = "repo") =>
          exit = 1 /\ stderr = <<>> /\ stdout = <<>> /\ Len(osStderr) = 1
    /\ (pc = "done" /\ last = "act" /\ ghOut.errMsg # <<>>) =>
          exit = 1 /\ stderr = <<>> /\ Len(stdout) = 1 /\ osStderr = <<>>
    /\ Len(ghCalls) <= 1

\* C13: a repository gets past validation only if it holds exactly one "/"
\* and does not start with a URL scheme, and a run whose repository has no
\* "/", more than one "/" or is a URL ends at validation with exit code 1 and
\* the format diagnostic.
C13_ExactlyOneSeparator ==
    LET separators == {i \in 1..Len(repo) : repo[i] = SLASH}
        validated == pc \in {"load", "decoding", "resolve", "act"}
                         \/ (pc = "done" /\ last \in {"load", "resolve", "act"})
    IN  /\ validated => Cardinality(separators) = 1 /\ ~HasPrefix(repo, Http)
        /\ (pc = "done" /\ last = "validate") =>
              /\ Cardinality(separators) # 1 \/ HasPrefix(repo, Http)
              /\ exit = 1
              /\ stderr = <<Msg("repository should be in the format")>>

\* C13, as line 532 tests it: a repository gets past validation exactly when
\* it holds at least one "/" and does not start with "http"; a value with
\* more than one "/" (the HOST/OWNER/REPO form of the --repo help) is
\* accepted, a value with no "/" or starting with "http" ends the run with
\* exit code 1 and the format diagnostic.
C13_AtLeastOneSeparator ==
    LET separators == {i \in 1..Len(repo) : repo[i] = SLASH}
        validated == pc \in {"load", "decoding", "resolve", "act"}
                         \/ (pc = "done" /\ last \in {"load", "resolve", "act"})
    IN  /\ validated => Cardinality(separators) >= 1 /\ ~HasPrefix(repo, Http)
        /\ (pc = "done" /\ last = "validate") =>
              /\ Cardinality(separators) = 0 \/ HasPrefix(repo, Http)
              /\ exit = 1
              /\ stderr = <<Msg("repository should be in the format")>>

\* C14: where the home directory is found every run that starts comes to an
\* end, it never panics, and it has ended exactly when run has returned 0 or 1.
C14_Terminates ==
    /\ [](homeOk => /\ pc # "panicked"
                    /\ pc = "done" => exit \in {0, 1}
                    /\ pc # "done" => exit = -1)
    /\ (homeOk /\ pc = "start") ~> (pc = "done" /\ exit \in {0, 1})

\* C14 witness: a run that went through the decoding loop for two entries
\* and the executor has ended
C14_Witness ==
    /\ homeOk
    /\ pc = "done"
    /\ last = "act"
    /\ Cardinality(DOMAIN repos) = 2
    /\ pending = {}
    /\ Len(ghCalls) = 1
    /\ exit \in {0, 1}

\* C15: an empty file decodes without error to a config with no
\* repositories, so the run gets past loading and every resolution, for any
\* repository and group and in global mode too, fails with
\* RepositoryNotConfigured; a missing file ends the run at loading instead.
C15_EmptyContent ==
    /\ file.kind = "empty" =>
          /\ loadErr = ErrNil
          /\ conf = EmptyMap
          /\ pc = "done" => last \notin {"load", "act"}
          /\ Resolved =>
                /\ exit = 1
                /\ err = ErrRepositoryNotConfigured
                /\ reviewers = <<>>
                /\ stderr = <<Line("no reviewers are configured for", repo, <<>>, "", <<>>)>>
          /\ pc \notin {"act"}
    /\ file.kind = "missing" =>
          /\ ~Resolved
          /\ pc \notin {"decoding", "resolve"}

\* C15 witness: on an empty file a global run was resolved and found nothing
C15_Witness ==
    /\ file.kind = "empty"
    /\ pc = "done"
    /\ last = "resolve"
    /\ flags.globalGroups
    /\ loadErr = ErrNil
    /\ err = ErrRepositoryNotConfigured
    /\ exit = 1

\* C16: text that is not YAML, and a file with a repository value that is
\* neither a sequence of strings nor a mapping from strings to sequences of
\* strings, fail decoding: the run ends at loading with exit code 1 and the
\* decoder's error, and the config holds no entry.
C16_MalformedRejected ==
    LET seqOfStrings(n) == n.t = "seq" /\ \A i \in 1..Len(n.items) : n.items[i].t = "str"
        groupMapping(n) ==
            n.t = "map" /\ \A i \in 1..Len(n.pairs) : seqOfStrings(n.pairs[i].n)
        malformed ==
            \/ file.kind = "invalid"
            \/ /\ file.kind = "doc"
               /\ \E i \in 1..Len(Entries) :
                     ~seqOfStrings(Entries[i].n) /\ ~groupMapping(Entries[i].n)
    IN  malformed =>
            /\ conf = EmptyMap
            /\ pc \notin {"decoding", "resolve", "act"}
            /\ pc = "done" =>
                  /\ last \notin {"resolve", "act"}
                  /\ last = "load" =>
                        /\ exit = 1
                        /\ loadErr = ErrYaml
                        /\ stderr = <<Line("error", <<>>, <<>>, ErrYaml, <<>>)>>

\* C16, for the shapes the decoder rejects: as above with a null taken for an
\* acceptable repository value and an acceptable group value
C16_NonNullMalformedRejected ==
    LET seqOfStrings(n) == n.t = "seq" /\ \A i \in 1..Len(n.items) : n.items[i].t = "str"
        groupMapping(n) ==
            /\ n.t = "map"
            /\ \A i \in 1..Len(n.pairs) :
                  n.pairs[i].n.t = "null" \/ seqOfStrings(n.pairs[i].n)
        malformed ==
            \/ file.kind = "invalid"
            \/ /\ file.kind = "doc"
               /\ \E i \in 1..Len(Entries) :
                     /\ Entries[i].n.t # "null"
                     /\ ~seqOfStrings(Entries[i].n)
                     /\ ~groupMapping(Entries[i].n)
    IN  malformed =>
            /\ conf = EmptyMap
            /\ pc \notin {"decoding", "resolve", "act"}
            /\ pc = "done" =>
                  /\ last \notin {"resolve", "act"}
                  /\ last = "load" =>
                        /\ exit = 1
                        /\ loadErr = ErrYaml
                        /\ stderr = <<Line("error", <<>>, <<>>, ErrYaml, <<>>)>>

\* C17: in a config the loader returned without error every repository has
\* at least one group.
C17_EveryRepositoryHasGroup ==
    LoopDone => \A r \in DOMAIN conf : DOMAIN conf[r] # {}

\* C17, for the values that declare something: a repository of the returned
\* config is without groups only if the file declares it with a null value
\* or an empty mapping
C17_NoGroupOnlyFromNullOrEmpty ==
    LoopDone =>
        \A r \in DOMAIN conf :
            DOMAIN conf[r] = {} =>
                \E i \in 1..Len(Entries) :
                    /\ ToLower(Entries[i].k) = r
                    /\ \/ Entries[i].n.t = "null"
                       \/ Entries[i].n.t = "map" /\ Entries[i].n.pairs = <<>>

\* C13 witness: a repository with two separators passed validation and the
\* config is being loaded for it
C13_Witness ==
    /\ repo = Nested
    /\ pc = "load"
    /\ stderr = <<>>
    /\ exit = -1

\* C18: a run that ends at flag parsing returns 0 when help was requested and
\* 1 when the flag is unknown, and it has determined no repository, read no
\* config and not invoked the executor.
C18_ParseEndsRun ==
    (pc = "done" /\ last = "start") =>
        /\ \/ exit = 0 /\ stderr = <<Msg("usage")>>
           \/ exit = 1 /\ stderr = <<Msg("unknown flag")>>
        /\ repo = <<>>
        /\ confPath = <<>>
        /\ repos = EmptyMap
        /\ conf = EmptyMap
        /\ loadErr = ErrNil
        /\ reviewers = <<>>
        /\ ghCalls = <<>>
        /\ stdout = <<>>
        /\ osStderr = <<>>

\* C18 witness: a help request ended the run with 0 on a file that
\* configures repositories
C18_Witness ==
    /\ pc = "done"
    /\ last = "start"
    /\ exit = 0
    /\ stderr = <<Msg("usage")>>
    /\ file.kind = "doc"
    /\ Len(Entries) = 2
    /\ ghCalls = <<>>

\* C19: group keys are kept as the file spells them and compared exactly: a
\* request for a group under a configured repository resolves without error
\* only if the file declares a group key identical to the requested name, and
\* fails with GroupNotConfigured otherwise, also when a declared key differs
\* from the name in letter case only.
C19_GroupKeysCaseSensitive ==
    LET declared(n) ==
            IF n.t = "map" THEN Keys(n.pairs)
            ELSE IF IsFlatList(n) THEN {Default} ELSE {}
    IN  \A i \in 1..Len(Entries) :
            OnlyKey(i) =>
                /\ LoopDone =>
                      DOMAIN conf[ToLower(Entries[i].k)] = declared(Entries[i].n)
                /\ (Resolved /\ LookupKey(repo, flags.globalGroups) = ToLower(Entries[i].k)) =>
                      IF flags.group \in declared(Entries[i].n)
                      THEN err = ErrNil
                      ELSE err = ErrGroupNotConfigured /\ pc = "done" /\ exit = 1

\* C19 witness: the group was requested in another letter case than the
\* file declares it in, and was not found
C19_Witness ==
    /\ Resolved
    /\ ~flags.globalGroups
    /\ err = ErrGroupNotConfigured
    /\ exit = 1
    /\ \E i \in 1..Len(Entries) :
          /\ ToLower(Entries[i].k) = ToLower(repo)
          /\ OnlyKey(i)
          /\ Entries[i].n.t = "map"
          /\ \E j \in 1..Len(Entries[i].n.pairs) :
                /\ Entries[i].n.pairs[j].k # flags.group
                /\ ToLower(Entries[i].n.pairs[j].k) = ToLower(flags.group)

C21_PathIsResolvedFile ==
    /\ pc \in {"read", "unmarshal", "returned"} =>
          confPath = <<flags.configDir, "gh-rr.yml">>
    /\ (pc = "returned" /\ loadErr = ErrNil) => Path = <<flags.configDir, "gh-rr.yml">>

\* C21, for the files without a "path" key of their own: the returned config
\* has the computed path, with and without an error
C21_PathWithoutPathKey ==
    /\ pc \in {"read", "unmarshal", "returned"} =>
          confPath = <<flags.configDir, "gh-rr.yml">>
    /\ (pc = "returned" /\ file.path.t # "str") => Path = <<flags.configDir, "gh-rr.yml">>

\* C22: a run invokes the executor exactly once when it gets to the last step
\* without --dry-run and not at all otherwise: the step taken from there is
\* the invocation, a finished run has one call if it ended there and none if
\* it ended earlier or was a dry run, and a failed call is not repeated.
C22_ExecutorAtMostOnce ==
    /\ [](Len(ghCalls) =
            IF pc = "done" /\ last = "act" /\ ~flags.isDryRun THEN 1 ELSE 0)
    /\ [][(pc = "act" /\ ~flags.isDryRun) => (Len(ghCalls') = 1 /\ pc' = "done")]_vars
    /\ [][(ghOut.errMsg # <<>>) => (Len(ghCalls') <= Len(ghCalls))]_vars

\* C22 witness: the executor failed with an error of white space only and
\* was called once
C22_Witness ==
    /\ pc = "done"
    /\ last = "act"
    /\ ghOut.errMsg = <<" ">>
    /\ Len(ghCalls) = 1
    /\ exit = 1

\* cli.Parse has returned without error
Parsed == pc \notin {"start", "panicked"} /\ ~(pc = "done" /\ last = "start")

\* C23: without --from the group resolved is "default"; with --from it is the
\* name given, and when the looked-up repository does not declare that name
\* the run fails with GroupNotConfigured, also when the repository declares
\* "default".
C23_FromSelectsGroup ==
    LET key == LookupKey(repo, flags.globalGroups)
        g == IF osArgs.from = <<>> THEN <<"d", "e", "f", "a", "u", "l", "t">>
             ELSE osArgs.from[1]
    IN  /\ Parsed => flags.group = g
        /\ (Resolved /\ key \in DOMAIN conf) =>
              IF g \in DOMAIN conf[key]
              THEN err = ErrNil /\ reviewers = conf[key][g]
              ELSE /\ err = ErrGroupNotConfigured
                   /\ reviewers = <<>>
                   /\ pc = "done" /\ exit = 1
                   /\ stderr = <<Line("does not have a group named", repo, g, "", <<>>)>>

\* C23 witness: a group given with --from is not declared by a repository
\* that declares reviewers for "default", and the run failed
C23_Witness ==
    /\ Resolved
    /\ osArgs.from = <<Infra>>
    /\ ~flags.globalGroups
    /\ ToLower(repo) \in DOMAIN conf
    /\ Default \in DOMAIN conf[ToLower(repo)]
    /\ conf[ToLower(repo)][Default] # <<>>
    /\ err = ErrGroupNotConfigured
    /\ exit = 1

\* C24: the target is passed through as it is: the third element of the
\* vector given to the executor is the first positional argument, a number,
\* a branch name or a URL alike, and the empty string without positional
\* arguments; a run that ends before the executor ends for a reason found
\* in the flags, the repository, the file or the lookup, never in the target.
C24_TargetOpaque ==
    /\ ghCalls # <<>> =>
          ghCalls[1][3] =
              (IF osArgs.positional = <<>> THEN "" ELSE osArgs.positional[1])
    /\ (pc = "done" /\ ghCalls = <<>>) =>
          \/ last = "start" /\ osArgs.extra # ""
          \/ last = "repo" /\ osArgs.repo = <<>>
          \/ last = "validate" /\ ~RepositoryFormatOk(repo)
          \/ last = "load" /\ ~Decodable
          \/ last = "resolve" /\ err # ErrNil
          \/ last = "act" /\ osArgs.dryRun

\* C24 witness: a URL given for the target reached the executor
C24_Witness ==
    /\ pc = "done"
    /\ osArgs.positional = <<"https://github.com/a/b/pull/1">>
    /\ Len(ghCalls) = 1
    /\ ghCalls[1][3] = "https://github.com/a/b/pull/1"

\* C25: the steps of a run happen in the order parse, repository, validation,
\* load, resolution, then dry-run print or executor call; the step that fails
\* ends the run with its one diagnostic and nothing of a later step has
\* happened: with an invalid repository the run reports the repository
\* format and the config path is never computed nor the file read, also when
\* the file is missing.
C25_StepOrder ==
    /\ [][\/ pc = "start" /\ pc' \in {"repo", "done", "panicked"}
          \/ pc = "repo" /\ pc' \in {"validate", "done"}
          \/ pc = "validate" /\ pc' \in {"load", "done"}
          \/ pc = "load" /\ pc' \in {"decoding", "done"}
          \/ pc = "decoding" /\ pc' \in {"decoding", "resolve"}
          \/ pc = "resolve" /\ pc' \in {"act", "done"}
          \/ pc = "act" /\ pc' = "done"
          \/ pc \in {"done", "panicked"} /\ pc' = "start"]_vars
    /\ []((pc = "done" /\ last \in {"start", "repo", "validate"}) =>
            confPath = <<>> /\ loadErr = ErrNil /\ repos = EmptyMap /\ conf = EmptyMap)
    /\ []((pc = "done" /\ last \in {"start", "repo", "validate", "load"}) =>
            err = ErrNil /\ reviewers = <<>>)
    /\ []((pc = "done" /\ last # "act") => ghCalls = <<>> /\ stdout = <<>>)
    /\ []((pc = "done" /\ last = "start") => repo = <<>>)
    /\ []((pc = "done" /\ exit = 1) =>
            /\ Len(stderr) + Len(osStderr) + Len(stdout) = 1
            /\ last = "repo" => osStderr = <<Msg("could not determine repository")>>
            /\ last = "validate" =>
                  stderr = <<Msg("repository should be in the format")>>
            /\ last = "load" => stderr[1].k \in {"please create", "error"}
            /\ last = "resolve" =>
                  stderr[1].k \in {"no reviewers are configured for",
                                   "does not have a group named"}
            /\ last = "act" => stdout[1].k = "could not add reviewers")

\* C25 witness: the repository is invalid and the file is missing, and the
\* run ended at validation with the format diagnostic
C25_Witness ==
    /\ pc = "done"
    /\ last = "validate"
    /\ file.kind = "missing"
    /\ repo = NoOwner
    /\ stderr = <<Msg("repository should be in the format")>>
    /\ confPath = <<>>
    /\ exit = 1

\* C26: a run that returns, returns 0 exactly when help was requested, or the
\* repository is valid, the file decodes, the looked-up repository declares
\* the group, and the run is a dry run or the executor was called and
\* returned no error output; every other run that returns, returns 1.
C26_ExitCode ==
    LET key == LookupKey(repo, flags.globalGroups)
        success ==
            /\ osArgs.extra = ""
            /\ repo # <<>>
            /\ RepositoryFormatOk(repo)
            /\ Decodable
            /\ key \in DOMAIN conf
            /\ flags.group \in DOMAIN conf[key]
            /\ \/ osArgs.dryRun
               \/ ghCalls # <<>> /\ ghOut.errMsg = <<>>
    IN  pc = "done" =>
            exit = (IF osArgs.extra = "--help" \/ success THEN 0 ELSE 1)

\* C26 witness: a global run without --dry-run returned 0 after the executor
\* returned a URL and no error output
C26_Witness ==
    /\ pc = "done"
    /\ exit = 0
    /\ flags.globalGroups
    /\ ~osArgs.dryRun
    /\ ghOut.url # ""
    /\ ghOut.errMsg = <<>>
    /\ Len(ghCalls) = 1

\* C27: decoding the same text twice gives the same config, also when two
\* repository keys of the text differ in letter case only: the groups under
\* the lower-cased key do not depend on the order the entries are visited in.
C27_DecodeDeterministic ==
    (pc = "resolve" /\ prev # <<>>) => conf = prev[1]

\* C27, for the texts whose repository keys all differ in more than letter
\* case
C27_DeterministicWithoutCollision ==
    (pc = "resolve" /\ prev # <<>> /\ \A i \in 1..Len(Entries) : OnlyKey(i)) =>
        conf = prev[1]

\* C28: every repository of the shape owner/name, with one "/" and an owner
\* and a name that are not empty, passes validation whatever its owner
\* begins with: a run that ends at validation has a repository without "/"
\* or a URL.
C28_OwnerNamePasses ==
    LET separators == {i \in 1..Len(repo) : repo[i] = SLASH}
        ownerName == /\ Cardinality(separators) = 1
                     /\ repo[1] # SLASH
                     /\ repo[Len(repo)] # SLASH
    IN  (pc = "done" /\ last = "validate") => ~ownerName

\* C28, for the owners that do not begin with "http": such a repository of
\* the shape owner/name passes validation
C28_OtherOwnersPass ==
    LET separators == {i \in 1..Len(repo) : repo[i] = SLASH}
        ownerName == /\ Cardinality(separators) = 1
                     /\ repo[1] # SLASH
                     /\ repo[Len(repo)] # SLASH
    IN  (pc = "done" /\ last = "validate") => (~ownerName \/ HasPrefix(repo, Http))

\* C29: a run given --config-dir does not depend on the home directory: it
\* is never cut short for want of one.
C29_HomeOnlyWithoutConfigDir ==
    pc = "panicked" => osArgs.configDir = <<>>

\* C29, for the environment: a run is cut short exactly when the home
\* directory is not found, whatever its command line
C29_PanicWithoutHome ==
    /\ pc = "panicked" => ~homeOk
    /\ ~homeOk => pc \in {"start", "panicked"}

\* C30: the repository passed after "--repo", printed in the dry-run line and
\* named in the diagnostics of a failed lookup is the repository as given by
\* --repo or as inferred, in its own letter case, in global mode too; only
\* the lookup key is lower-cased or replaced by "*".
C30_OriginalRepository ==
    LET given ==
            IF osArgs.repo # <<>> THEN repo = osArgs.repo
            ELSE \E c \in CurrentRepos :
                    c.ok /\ repo = c.Owner \o <<SLASH>> \o c.Name
    IN  /\ (Parsed /\ pc \notin {"repo"} /\ ~(pc = "done" /\ last = "repo")) =>
              given /\ repo # Star
        /\ ghCalls # <<>> => ghCalls[1][4] = "--repo" /\ ghCalls[1][5] = repo
        /\ (pc = "done" /\ last = "act" /\ osArgs.dryRun) =>
              stdout[1].k = "would have used" /\ stdout[1].cs = repo
        /\ (pc = "done" /\ last = "resolve") => stderr[1].cs = repo

\* C30 witness: a global run for a repository given in upper case passed it
\* to the executor in upper case
C30_Witness ==
    /\ pc = "done"
    /\ flags.globalGroups
    /\ osArgs.repo = ABUpper
    /\ Len(ghCalls) = 1
    /\ ghCalls[1][5] = ABUpper
    /\ LookupKey(repo, flags.globalGroups) = Star

====
